---- MODULE Spec2Model ----
(***************************************************************************)
(* sql-quiz: the Quiz object of src/sql_quiz/main.py and the QuizCli       *)
(* hooks that drive it from the host REPL.                                 *)
(*                                                                         *)
(* Python values are modelled structurally: a dict is a function whose     *)
(* DOMAIN is its set of keys, a list is a sequence, list indices stay      *)
(* 0-based as in the source (questions[n] is qs[n + 1]).  A method that    *)
(* can raise is an operator returning a record whose field "raised" names  *)
(* the exception ("" when it returns normally) together with the object    *)
(* state it leaves behind.                                                 *)
(***************************************************************************)
EXTENDS Integers, Sequences, FiniteSets, TLC

\* ------------------------------------------------------------------ bounds
MaxQuestions == 2     \* questions in an authored quiz file
MaxSubmits == 2       \* statements the learner submits in one run

MaxNexts == MaxQuestions + 1   \* goto_next calls followed after one start()

Stmts == {"SELECT 1"}                   \* the statements a learner submits

\* What the executor can return: one row, and two rows in both orders.
Outputs == {<<"1">>, <<"1", "2">>, <<"2", "1">>}

\* ----------------------------------------------------------- Python dicts
HasKey(d, k) == k \in DOMAIN d
SetKey(d, k, v) == [x \in (DOMAIN d) \cup {k} |-> IF x = k THEN v ELSE d[x]]
DelKey(d, k) == [x \in (DOMAIN d) \ {k} |-> d[x]]

\* ------------------------------------------------------------ source text
FULL_PROMPT == <<"title", "prompt", "This should return:", "output">>
ALL_DONE == "\nAll done! Congrats!"
CMD_QUESTION == "\\question"
CMD_NEXT == "\\next"
CMD_SOLUTION == "\\solution"
CMD_EXPORT == "\\export_closed_quiz"
quiz_filepath == <<"q", "u", "i", "z">>

VARIABLES
    phase,        \* "boot" | "running" | "crashed": QuizCli construction
    quiz,         \* the Quiz dataclass instance (fields as in the source)
    started,      \* whether Quiz.start() has run on this instance
    registered,   \* names registered with pgspecial by QuizCli
    files,        \* YAML files on disk: path -> <<>> (empty) or <<document>>
    log,          \* content of {filepath}.log: the blocks appended so far
    runs,         \* runs[i]: times the executor has run question i's solution
    last,         \* the last operation: its name, what it raised, its value
                  \* and the executor calls it made, in order
    submits,      \* statements submitted so far
    nexts         \* goto_next calls since the last start()

vars == <<phase, quiz, started, registered, files, log, runs, last, submits, nexts>>

\* ------------------------------------------------------------------ inputs
\* A question as an author can write it: title and prompt, and any of
\* solution / expected.  Question i carries the title i.
AuthoredExpected == <<"1">>
AuthoredSolution == "SELECT 1"

AuthoredQuestion(i, withSolution, withExpected) ==
    LET base == [title |-> i, prompt |-> "prompt"]
        solved == IF withSolution THEN SetKey(base, "solution", AuthoredSolution) ELSE base
    IN  IF withExpected THEN SetKey(solved, "expected", AuthoredExpected) ELSE solved

\* The question lists of the quiz files: up to MaxQuestions questions that
\* all carry the same fields, and the same lists with the fields of the last
\* question left out.
AuthoredQuestionLists ==
    UNION {{[i \in 1..n |-> AuthoredQuestion(i, s /\ (i < n \/ ~cut), e /\ (i < n \/ ~cut))] :
               s \in BOOLEAN, e \in BOOLEAN, cut \in BOOLEAN} : n \in 0..MaxQuestions}

\* The documents a quiz file can hold: all four required fields, or (a
\* malformed file) the field "closed" left out.
AuthoredDocuments ==
    LET full == {[title |-> "title", description |-> "description",
                  closed |-> c, questions |-> qs] :
                     c \in BOOLEAN, qs \in AuthoredQuestionLists}
    IN  full \cup {DelKey(d, "closed") : d \in {x \in full : x.questions = <<>>}}

\* ------------------------------------------------------------ class Quiz
NoQuiz ==
    [title |-> "", description |-> "", closed |-> FALSE, questions |-> <<>>,
     filepath |-> <<>>, expected_attached |-> FALSE, current_num |-> 0]

RequiredFields == {"title", "description", "closed", "questions", "filepath"}

\* Quiz.question: self.questions[self.current_num]; IndexError off the list.
HasQuestion(q) == q.current_num + 1 \in 1..Len(q.questions)
question(q) == q.questions[q.current_num + 1]

\* yaml.load of a file's content: None for an empty file, else the document.
yaml_load(content) ==
    IF content = <<>> THEN [isNone |-> TRUE] ELSE [isNone |-> FALSE, value |-> content[1]]

\* Quiz.load_from_yaml_file: open, yaml.load, add filepath, cls(**quiz_data).
\* The dataclass constructor is the only check made: it raises TypeError when
\* a required field is missing, and quiz_data['filepath'] = ... raises
\* TypeError on None.
load_from_yaml_file(fs, filepath) ==
    IF filepath \notin DOMAIN fs
    THEN [raised |-> "FileNotFoundError", quiz |-> NoQuiz]
    ELSE LET loaded == yaml_load(fs[filepath])
         IN  IF loaded.isNone
             THEN [raised |-> "TypeError", quiz |-> NoQuiz]
             ELSE LET quiz_data == SetKey(loaded.value, "filepath", filepath)
                  IN  IF DOMAIN quiz_data # RequiredFields
                      THEN [raised |-> "TypeError", quiz |-> NoQuiz]
                      ELSE [raised |-> "",
                            quiz |-> [title |-> quiz_data.title,
                                      description |-> quiz_data.description,
                                      closed |-> quiz_data.closed,
                                      questions |-> quiz_data.questions,
                                      filepath |-> quiz_data.filepath,
                                      expected_attached |-> FALSE,
                                      current_num |-> 0]]

\* The first question (1-based) at which the attach loop raises: its dict has
\* no 'solution' (KeyError), or the executor fails on it (failAt); one past
\* the end when the loop completes.
AttachStop(qs, failAt) ==
    LET bad == {i \in 1..Len(qs) : ~HasKey(qs[i], "solution") \/ failAt = i}
    IN  IF bad = {} THEN Len(qs) + 1
        ELSE CHOOSE i \in bad : \A j \in bad : i <= j

\* The latch assignment indented into the "if not self.closed" block: a
\* closed quiz is never marked attached.
attach_expected_LatchInsideIf(q, outs, failAt) ==
    IF q.closed
    THEN [raised |-> "", quiz |-> q, called |-> <<>>]
    ELSE LET qs == q.questions
             n == Len(qs)
             stop == AttachStop(qs, failAt)
             ncalls == IF stop <= n /\ HasKey(qs[stop], "solution") THEN stop ELSE stop - 1
         IN  [raised |-> IF stop > n THEN ""
                         ELSE IF HasKey(qs[stop], "solution") THEN "ExecutionError"
                         ELSE "KeyError",
              quiz |-> [q EXCEPT
                          !.questions = [i \in 1..n |->
                              IF i < stop THEN SetKey(qs[i], "expected", outs[i]) ELSE qs[i]],
                          !.expected_attached = IF stop > n THEN TRUE ELSE @],
              called |-> [i \in 1..ncalls |->
                             [by |-> "attach_expected", question |-> i - 1,
                              stmt |-> qs[i].solution, ok |-> i < stop,
                              out |-> IF i < stop THEN outs[i] ELSE <<>>]]]

\* The loop walking the questions with self.current_num as its index: the
\* cursor is left where the loop stopped.
attach_expected_CursorAsLoopIndex(q, outs, failAt) ==
    IF q.closed
    THEN [raised |-> "", quiz |-> [q EXCEPT !.expected_attached = TRUE], called |-> <<>>]
    ELSE LET qs == q.questions
             n == Len(qs)
             stop == AttachStop(qs, failAt)
             ncalls == IF stop <= n /\ HasKey(qs[stop], "solution") THEN stop ELSE stop - 1
         IN  [raised |-> IF stop > n THEN ""
                         ELSE IF HasKey(qs[stop], "solution") THEN "ExecutionError"
                         ELSE "KeyError",
              quiz |-> [q EXCEPT
                          !.questions = [i \in 1..n |->
                              IF i < stop THEN SetKey(qs[i], "expected", outs[i]) ELSE qs[i]],
                          !.expected_attached = IF stop > n THEN TRUE ELSE @,
                          !.current_num = IF stop > n THEN n - 1 ELSE stop - 1],
              called |-> [i \in 1..ncalls |->
                             [by |-> "attach_expected", question |-> i - 1,
                              stmt |-> qs[i].solution, ok |-> i < stop,
                              out |-> IF i < stop THEN outs[i] ELSE <<>>]]]

\* The latch recording the outcome of the last pass: a pass that raises
\* clears it.
attach_expected_LatchFollowsPass(q, outs, failAt) ==
    IF q.closed
    THEN [raised |-> "", quiz |-> [q EXCEPT !.expected_attached = TRUE], called |-> <<>>]
    ELSE LET qs == q.questions
             n == Len(qs)
             stop == AttachStop(qs, failAt)
             ncalls == IF stop <= n /\ HasKey(qs[stop], "solution") THEN stop ELSE stop - 1
         IN  [raised |-> IF stop > n THEN ""
                         ELSE IF HasKey(qs[stop], "solution") THEN "ExecutionError"
                         ELSE "KeyError",
              quiz |-> [q EXCEPT
                          !.questions = [i \in 1..n |->
                              IF i < stop THEN SetKey(qs[i], "expected", outs[i]) ELSE qs[i]],
                          !.expected_attached = (stop > n)],
              called |-> [i \in 1..ncalls |->
                             [by |-> "attach_expected", question |-> i - 1,
                              stmt |-> qs[i].solution, ok |-> i < stop,
                              out |-> IF i < stop THEN outs[i] ELSE <<>>]]]

\* The latch set before the loop: a pass that raises leaves it set.
attach_expected_LatchFirst(q, outs, failAt) ==
    IF q.closed
    THEN [raised |-> "", quiz |-> [q EXCEPT !.expected_attached = TRUE], called |-> <<>>]
    ELSE LET qs == q.questions
             n == Len(qs)
             stop == AttachStop(qs, failAt)
             ncalls == IF stop <= n /\ HasKey(qs[stop], "solution") THEN stop ELSE stop - 1
         IN  [raised |-> IF stop > n THEN ""
                         ELSE IF HasKey(qs[stop], "solution") THEN "ExecutionError"
                         ELSE "KeyError",
              quiz |-> [q EXCEPT
                          !.questions = [i \in 1..n |->
                              IF i < stop THEN SetKey(qs[i], "expected", outs[i]) ELSE qs[i]],
                          !.expected_attached = TRUE],
              called |-> [i \in 1..ncalls |->
                             [by |-> "attach_expected", question |-> i - 1,
                              stmt |-> qs[i].solution, ok |-> i < stop,
                              out |-> IF i < stop THEN outs[i] ELSE <<>>]]]

\* Quiz.attach_expected(eval_fn).  outs[i] is what eval_fn returns for the
\* solution of question i; "called" lists the eval_fn calls made.
attach_expected(q, outs, failAt) ==
    IF q.closed
    THEN [raised |-> "", quiz |-> [q EXCEPT !.expected_attached = TRUE], called |-> <<>>]
    ELSE LET qs == q.questions
             n == Len(qs)
             stop == AttachStop(qs, failAt)
             ncalls == IF stop <= n /\ HasKey(qs[stop], "solution") THEN stop ELSE stop - 1
         IN  [raised |-> IF stop > n THEN ""
                         ELSE IF HasKey(qs[stop], "solution") THEN "ExecutionError"
                         ELSE "KeyError",
              quiz |-> [q EXCEPT
                          !.questions = [i \in 1..n |->
                              IF i < stop THEN SetKey(qs[i], "expected", outs[i]) ELSE qs[i]],
                          !.expected_attached = IF stop > n THEN TRUE ELSE @],
              called |-> [i \in 1..ncalls |->
                             [by |-> "attach_expected", question |-> i - 1,
                              stmt |-> qs[i].solution, ok |-> i < stop,
                              out |-> IF i < stop THEN outs[i] ELSE <<>>]]]

\* Quiz.start
start(q) ==
    [quiz |-> [q EXCEPT !.current_num = 0],
     ret |-> [title |-> q.title, description |-> q.description,
              num_questions |-> Len(q.questions)]]

\* A comparison that forgets the order of the rows.
verify_answer_Unordered(q, output) ==
    IF ~HasQuestion(q) THEN [raised |-> "IndexError", ret |-> FALSE]
    ELSE IF ~HasKey(question(q), "expected") THEN [raised |-> "KeyError", ret |-> FALSE]
    ELSE [raised |-> "",
          ret |-> /\ Len(output) = Len(question(q).expected)
                  /\ {output[i] : i \in 1..Len(output)}
                       = {question(q).expected[i] : i \in 1..Len(output)}]

\* Quiz.verify_answer: output == self.question['expected'] (list equality).
verify_answer(q, output) ==
    IF ~HasQuestion(q) THEN [raised |-> "IndexError", ret |-> FALSE]
    ELSE IF ~HasKey(question(q), "expected") THEN [raised |-> "KeyError", ret |-> FALSE]
    ELSE [raised |-> "", ret |-> (output = question(q).expected)]

\* "    " + "\n    ".join(rows): the lines of the joined string.
IndentJoin(rows) ==
    IF rows = <<>> THEN << <<"    ", "">> >>
    ELSE [i \in 1..Len(rows) |-> <<"    ", rows[i]>>]

\* Quiz.full_prompt: FULL_PROMPT.format(title, prompt, output).
full_prompt(q) ==
    IF ~HasQuestion(q) THEN [raised |-> "IndexError", ret |-> <<>>]
    ELSE IF ~HasKey(question(q), "expected") THEN [raised |-> "KeyError", ret |-> <<>>]
    ELSE [raised |-> "",
          ret |-> <<FULL_PROMPT, question(q).title, question(q).prompt,
                    IndentJoin(question(q).expected)>>]

\* The bound test off by one: the cursor can step past the last question.
goto_next_OffByOne(q) ==
    IF q.current_num < Len(q.questions)
    THEN LET moved == [q EXCEPT !.current_num = @ + 1]
             shown == full_prompt(moved)
         IN  [raised |-> shown.raised, quiz |-> moved, ret |-> shown.ret]
    ELSE [raised |-> "", quiz |-> q, ret |-> <<ALL_DONE>>]

\* The prompt rendered before the cursor is committed: a failed render leaves
\* the cursor where it was.
goto_next_RenderFirst(q) ==
    IF q.current_num < Len(q.questions) - 1
    THEN LET moved == [q EXCEPT !.current_num = @ + 1]
             shown == full_prompt(moved)
         IN  [raised |-> shown.raised,
              quiz |-> IF shown.raised = "" THEN moved ELSE q,
              ret |-> shown.ret]
    ELSE [raised |-> "", quiz |-> q, ret |-> <<ALL_DONE>>]

\* Quiz.goto_next: the cursor moves before the prompt is rendered.
goto_next(q) ==
    IF q.current_num < Len(q.questions) - 1
    THEN LET moved == [q EXCEPT !.current_num = @ + 1]
             shown == full_prompt(moved)
         IN  [raised |-> shown.raised, quiz |-> moved, ret |-> shown.ret]
    ELSE [raised |-> "", quiz |-> q, ret |-> <<ALL_DONE>>]

\* Quiz.solution
solution(q) ==
    IF ~HasQuestion(q) THEN [raised |-> "IndexError", ret |-> <<>>]
    ELSE IF ~HasKey(question(q), "solution") THEN [raised |-> "KeyError", ret |-> <<>>]
    ELSE [raised |-> "", ret |-> <<question(q).solution>>]

\* yaml.dump(data, stream): serialises a document into a stream that is a
\* file open for writing; a file object is not a document and a dict is not a
\* stream, so any other pairing raises before a byte is written.
yaml_dump(data, stream) ==
    IF data.kind = "dict" /\ stream.kind = "file"
    THEN [raised |-> "", path |-> stream.path, written |-> <<data.value>>]
    ELSE [raised |-> "TypeError", path |-> <<>>, written |-> <<>>]

\* Quiz.export_closed_quiz(filename): the object is changed first (closed set,
\* every 'solution' deleted), then the file is opened for writing (created or
\* truncated) and yaml.dump(f, quiz) is called with the file as its data and
\* the dict as its stream.
export_closed_quiz(q, filename, fs) ==
    LET n == Len(q.questions)
        q1 == [q EXCEPT !.closed = TRUE,
                        !.questions = [i \in 1..n |-> DelKey(q.questions[i], "solution")]]
        quizdict == [title |-> q1.title, description |-> q1.description,
                     questions |-> q1.questions, closed |-> q1.closed]
    IN  IF filename = <<>>
        THEN [raised |-> "FileNotFoundError", quiz |-> q1, files |-> fs]
        ELSE LET f == [kind |-> "file", path |-> filename]
                 opened == SetKey(fs, filename, <<>>)
                 dumped == yaml_dump(f, [kind |-> "dict", value |-> quizdict])
             IN  [raised |-> dumped.raised, quiz |-> q1,
                  files |-> IF dumped.raised = ""
                            THEN SetKey(opened, dumped.path, dumped.written)
                            ELSE opened]

\* ---------------------------------------------------------- class QuizCli
\* str.rsplit(sep) with no maxsplit: every occurrence of sep splits.
RECURSIVE rsplit(_, _)
rsplit(s, sep) ==
    LET at == {i \in 1..Len(s) : s[i] = sep}
    IN  IF at = {} THEN <<s>>
        ELSE LET i == CHOOSE k \in at : \A j \in at : j <= k
             IN  Append(rsplit(SubSeq(s, 1, i - 1), sep), SubSeq(s, i + 1, Len(s)))

\* The raw texts of an export command, character by character after the
\* command name (one item, it holds no space): no argument, a path, a path
\* after two spaces, and a path followed by a second token.
Queries ==
    {<<CMD_EXPORT>>,
     <<CMD_EXPORT, " ", "a">>,
     <<CMD_EXPORT, " ", " ", "a">>,
     <<CMD_EXPORT, " ", "a", " ", "b">>}

\* The latch never consulted: the attach pass on every statement.
NeedsAttach_Always(q) == TRUE

\* _evaluate_command's test of the latch: if not self.quiz._expected_attached
NeedsAttach(q) == ~q.expected_attached

\* The log opened for writing instead of appending: earlier blocks are lost.
log_write_Truncating(lg, q, text) == <<[num |-> q.current_num, text |-> text]>>

\* open(self.quiz.filepath + ".log", "a"); out.write("\n\n*** {current_num}\n\n{text}"):
\* one block, the cursor and the statement text, after those already there.
log_write(lg, q, text) == Append(lg, [num |-> q.current_num, text |-> text])

Result(op, raised, ret, called) ==
    [op |-> op, raised |-> raised, ret |-> ret, called |-> called]

\* runs after the executor calls "called" of one attach pass: a call that
\* returned counts, one that raised does not.
Counted(r, called) ==
    [i \in 1..Len(r) |-> IF i <= Len(called) /\ called[i].ok THEN r[i] + 1 ELSE r[i]]

Init ==
    /\ phase = "boot"
    /\ quiz = NoQuiz
    /\ started = FALSE
    /\ registered = {}
    /\ \E content \in {<<>>} \cup {<<d>> : d \in AuthoredDocuments} :
           \E present \in BOOLEAN :
               files = IF present \/ content # <<>>
                       THEN (quiz_filepath :> content)
                       ELSE [p \in {} |-> <<>>]
    /\ log = <<>>
    /\ runs = <<>>
    /\ last = Result("", "", <<>>, <<>>)
    /\ submits = 0
    /\ nexts = 0

\* QuizCli.register_special_commands: load the quiz, register the commands,
\* start the quiz and show the welcome dialog.  An exception from the load
\* ends the construction of the REPL.
RegisterSpecialCommands ==
    /\ phase = "boot"
    /\ LET loaded == load_from_yaml_file(files, quiz_filepath)
       IN  IF loaded.raised # ""
           THEN /\ phase' = "crashed"
                /\ last' = Result("register_special_commands", loaded.raised, <<>>, <<>>)
                /\ UNCHANGED <<quiz, started, registered, runs>>
           ELSE LET welcome == start(loaded.quiz)
                IN  /\ phase' = "running"
                    /\ quiz' = welcome.quiz
                    /\ started' = TRUE
                    /\ registered' = {CMD_QUESTION, CMD_NEXT, CMD_EXPORT}
                                     \cup (IF ~loaded.quiz.closed THEN {CMD_SOLUTION} ELSE {})
                    /\ runs' = [i \in 1..Len(loaded.quiz.questions) |-> 0]
                    /\ last' = Result("register_special_commands", "", <<welcome.ret>>, <<>>)
    /\ UNCHANGED <<files, log, submits, nexts>>

\* QuizCli._evaluate_command(text): attach once, run the statement, verify,
\* and on success show the dialog and append to the log.
\*   outs    what the executor returns for each solution
\*   failAt  the executor call that fails: 0 none, i the solution of question
\*           i, Len(questions) + 1 the learner's statement
\*   output  what the executor returns for the learner's statement
EvaluateCommand(text, outs, failAt, output) ==
    /\ phase = "running"
    /\ submits < MaxSubmits
    /\ submits' = submits + 1
    /\ LET n == Len(quiz.questions)
           attached == IF NeedsAttach(quiz)
                       THEN attach_expected(quiz, outs, failAt)
                       ELSE [raised |-> "", quiz |-> quiz, called |-> <<>>]
           own == [by |-> "_evaluate_command", question |-> quiz.current_num,
                   stmt |-> text, ok |-> failAt # n + 1,
                   out |-> IF failAt # n + 1 THEN output ELSE <<>>]
           verified == verify_answer(attached.quiz, output)
       IN  /\ quiz' = attached.quiz
           /\ runs' = Counted(runs, attached.called)
           /\ IF attached.raised # ""
              THEN /\ last' = Result("_evaluate_command", attached.raised, <<>>,
                                     attached.called)
                   /\ log' = log
              ELSE IF ~own.ok
              THEN /\ last' = Result("_evaluate_command", "ExecutionError", <<>>,
                                     Append(attached.called, own))
                   /\ log' = log
              ELSE IF verified.raised # ""
              THEN /\ last' = Result("_evaluate_command", verified.raised, <<>>,
                                     Append(attached.called, own))
                   /\ log' = log
              ELSE /\ last' = Result("_evaluate_command", "", <<output, verified.ret>>,
                                     Append(attached.called, own))
                   /\ log' = IF verified.ret
                             THEN log_write(log, attached.quiz, text)
                             ELSE log
    /\ UNCHANGED <<phase, started, registered, files, nexts>>

\* The inputs of one _evaluate_command: executor results are drawn only for
\* the calls that return in the handler (those before the failing one).
EvaluateCommandStep ==
    LET n == Len(quiz.questions)
        attaching == NeedsAttach(quiz) /\ ~quiz.closed
        last_ok == IF attaching THEN AttachStop(quiz.questions, 0) - 1 ELSE 0
    IN  \E text \in Stmts :
        \E failAt \in (IF attaching THEN 0..(n + 1) ELSE {0, n + 1}) :
        \E outs \in [1..(IF failAt \in 1..last_ok THEN failAt - 1 ELSE last_ok) -> Outputs] :
        \E output \in (IF failAt = 0 THEN Outputs ELSE {<<>>}) :
            EvaluateCommand(text, outs, failAt, output)

\* QuizCli.quiz_next_question
QuizNextQuestion ==
    /\ phase = "running"
    /\ CMD_NEXT \in registered
    /\ LET r == goto_next(quiz)
       IN  /\ quiz' = r.quiz
           /\ last' = Result("quiz_next_question", r.raised, r.ret, <<>>)
    /\ UNCHANGED <<phase, started, registered, files, log, runs, submits, nexts>>

\* QuizCli.quiz_show_prompt
QuizShowPrompt ==
    /\ phase = "running"
    /\ CMD_QUESTION \in registered
    /\ LET r == full_prompt(quiz)
       IN  last' = Result("quiz_show_prompt", r.raised, r.ret, <<>>)
    /\ UNCHANGED <<phase, quiz, started, registered, files, log, runs, submits, nexts>>

\* QuizCli.quiz_show_solution (highlight() only colours the text)
QuizShowSolution ==
    /\ phase = "running"
    /\ CMD_SOLUTION \in registered
    /\ LET r == solution(quiz)
       IN  last' = Result("quiz_show_solution", r.raised, r.ret, <<>>)
    /\ UNCHANGED <<phase, quiz, started, registered, files, log, runs, submits, nexts>>

\* QuizCli.quiz_export_closed_quiz(query): filename = query.rsplit(" ")[1]
QuizExportClosedQuiz(query) ==
    /\ phase = "running"
    /\ CMD_EXPORT \in registered
    /\ LET parts == rsplit(query, " ")
       IN  IF Len(parts) < 2
           THEN /\ last' = Result("quiz_export_closed_quiz", "IndexError", <<>>, <<>>)
                /\ UNCHANGED <<quiz, files>>
           ELSE LET filename == parts[2]
                    r == export_closed_quiz(quiz, filename, files)
                IN  /\ quiz' = r.quiz
                    /\ files' = r.files
                    /\ last' = Result("quiz_export_closed_quiz", r.raised,
                                      IF r.raised = ""
                                      THEN <<"Export successful: ", filename>> ELSE <<>>,
                                      <<>>)
    /\ UNCHANGED <<phase, started, registered, log, runs, submits, nexts>>

\* The session: the construction hook, then statements and registered
\* commands in any order.  How the host REPL routes a command text to its
\* registered handler is not part of the source; each handler is taken as the
\* source defines it.
Next ==
    \/ RegisterSpecialCommands
    \/ EvaluateCommandStep
    \/ QuizNextQuestion
    \/ QuizShowPrompt
    \/ QuizShowSolution
    \/ \E query \in Queries : QuizExportClosedQuiz(query)

Spec == Init /\ [][Next]_vars

\* ------------------------------------------------- the Quiz object alone
\* The methods of class Quiz called directly, in any order, by a caller that
\* holds the object (a test, or another front end than QuizCli).
Filenames == {<<>>, <<"a">>}

Load(filepath) ==
    /\ LET loaded == load_from_yaml_file(files, filepath)
       IN  IF loaded.raised # ""
           THEN /\ last' = Result("load_from_yaml_file", loaded.raised, <<>>, <<>>)
                /\ UNCHANGED <<phase, quiz, started, runs, nexts>>
           ELSE /\ phase' = "running"
                /\ quiz' = loaded.quiz
                /\ started' = FALSE
                /\ runs' = [i \in 1..Len(loaded.quiz.questions) |-> 0]
                /\ nexts' = 0
                /\ last' = Result("load_from_yaml_file", "", <<>>, <<>>)
    /\ UNCHANGED <<registered, files, log, submits>>

Start ==
    /\ phase = "running"
    /\ LET r == start(quiz)
       IN  /\ quiz' = r.quiz
           /\ last' = Result("start", "", <<r.ret>>, <<>>)
    /\ started' = TRUE
    /\ nexts' = 0
    /\ UNCHANGED <<phase, registered, files, log, runs, submits>>

AttachExpected(outs, failAt) ==
    /\ phase = "running"
    /\ submits < MaxSubmits
    /\ submits' = submits + 1
    /\ LET r == attach_expected(quiz, outs, failAt)
       IN  /\ quiz' = r.quiz
           /\ runs' = Counted(runs, r.called)
           /\ last' = Result("attach_expected", r.raised, <<>>, r.called)
    /\ UNCHANGED <<phase, started, registered, files, log, nexts>>

AttachExpectedStep ==
    LET n == Len(quiz.questions)
        last_ok == IF quiz.closed THEN 0 ELSE AttachStop(quiz.questions, 0) - 1
    IN  \E failAt \in (IF quiz.closed THEN {0} ELSE 0..n) :
        \E outs \in [1..(IF failAt \in 1..last_ok THEN failAt - 1 ELSE last_ok) -> Outputs] :
            AttachExpected(outs, failAt)

\* The property Quiz.question read by the caller.
Question ==
    /\ phase = "running"
    /\ last' = IF HasQuestion(quiz)
               THEN Result("question", "", <<question(quiz)>>, <<>>)
               ELSE Result("question", "IndexError", <<>>, <<>>)
    /\ UNCHANGED <<phase, quiz, started, registered, files, log, runs, submits, nexts>>

VerifyAnswer(output) ==
    /\ phase = "running"
    /\ LET r == verify_answer(quiz, output)
       IN  last' = Result("verify_answer", r.raised,
                          IF r.raised = "" THEN <<output, r.ret>> ELSE <<>>, <<>>)
    /\ UNCHANGED <<phase, quiz, started, registered, files, log, runs, submits, nexts>>

FullPrompt ==
    /\ phase = "running"
    /\ LET r == full_prompt(quiz)
       IN  last' = Result("full_prompt", r.raised, r.ret, <<>>)
    /\ UNCHANGED <<phase, quiz, started, registered, files, log, runs, submits, nexts>>

GotoNext ==
    /\ phase = "running"
    /\ nexts < MaxNexts
    /\ nexts' = nexts + 1
    /\ LET r == goto_next(quiz)
       IN  /\ quiz' = r.quiz
           /\ last' = Result("goto_next", r.raised, r.ret, <<>>)
    /\ UNCHANGED <<phase, started, registered, files, log, runs, submits>>

Solution ==
    /\ phase = "running"
    /\ LET r == solution(quiz)
       IN  last' = Result("solution", r.raised, r.ret, <<>>)
    /\ UNCHANGED <<phase, quiz, started, registered, files, log, runs, submits, nexts>>

ExportClosedQuiz(filename) ==
    /\ phase = "running"
    /\ LET r == export_closed_quiz(quiz, filename, files)
       IN  /\ quiz' = r.quiz
           /\ files' = r.files
           /\ last' = Result("export_closed_quiz", r.raised, <<>>, <<>>)
    /\ UNCHANGED <<phase, started, registered, log, runs, submits, nexts>>

NextQuiz ==
    \/ \E filepath \in {quiz_filepath} \cup Filenames : phase = "boot" /\ Load(filepath)
    \/ Start
    \/ AttachExpectedStep
    \/ Question
    \/ \E output \in Outputs : VerifyAnswer(output)
    \/ FullPrompt
    \/ GotoNext
    \/ Solution
    \/ \E filename \in Filenames : ExportClosedQuiz(filename)

SpecQuiz == Init /\ [][NextQuiz]_vars

\* ================================================================ claims
AllHave(qs, k) == \A i \in 1..Len(qs) : HasKey(qs[i], k)
\* The documents the spec's load accepts: a question list that is not empty,
\* a solution on every question of an open document, an expected on every
\* question of a closed one.
WellFormed(d) ==
    /\ d.questions # <<>>
    /\ ~d.closed => AllHave(d.questions, "solution")
    /\ d.closed => AllHave(d.questions, "expected")

\* The quiz file of the session holds a well-formed document.
LoadedWellFormed == WellFormed(files[quiz_filepath][1])

SameRows(a, b) == Len(a) = Len(b) /\ \A i \in 1..Len(a) : a[i] = b[i]
IsPermutation(a, b) ==
    /\ Len(a) = Len(b)
    /\ \E f \in [1..Len(a) -> 1..Len(a)] :
           /\ \A i, j \in 1..Len(a) : f[i] = f[j] => i = j
           /\ \A i \in 1..Len(a) : a[i] = b[f[i]]

\* C1: on an open document, a second attach_expected right after a first one
\* that completed makes no executor call and leaves every question's expected
\* as it was.
C1_SecondAttachIsNoOp ==
    [][(/\ last.op = "attach_expected"
        /\ last.raised = ""
        /\ ~quiz.closed
        /\ AttachExpectedStep)
       => (last'.called = <<>> /\ quiz'.questions = quiz.questions)]_vars

C3_VerifyIsOrderedEquality ==
    (last.op = "verify_answer" /\ last.raised = "")
        => (last.ret[2] <=> SameRows(last.ret[1], question(quiz).expected))

\* verify_answer returned false on the second question for an output that
\* holds the expected rows in another order.
C3_Witness ==
    /\ last.op = "verify_answer"
    /\ last.raised = ""
    /\ quiz.current_num = 1
    /\ last.ret[2] = FALSE
    /\ Len(last.ret[1]) = 2
    /\ IsPermutation(last.ret[1], question(quiz).expected)

Min(a, b) == IF a < b THEN a ELSE b

\* C4: after start(), k calls of goto_next leave the cursor on question
\* min(k, len - 1), so len - 1 calls reach the last question; every call made
\* from there returns the completion message and changes nothing.
C4_AdvanceReachesLastThenStays ==
    /\ [](phase = "running" /\ started /\ Len(quiz.questions) >= 1
            => quiz.current_num = Min(nexts, Len(quiz.questions) - 1))
    /\ [][(GotoNext /\ started /\ nexts >= Len(quiz.questions) - 1)
            => /\ last'.raised = ""
               /\ last'.ret = <<ALL_DONE>>
               /\ quiz' = quiz
               /\ UNCHANGED <<phase, started, registered, files, log, runs>>]_vars

\* On a two-question quiz the third goto_next after start(): the second one
\* already answered with the completion message.
C4_Witness ==
    /\ started
    /\ Len(quiz.questions) = 2
    /\ nexts = 3
    /\ quiz.current_num = 1
    /\ last.op = "goto_next"
    /\ last.ret = <<ALL_DONE>>

\* C5: in every state of a running session the cursor names a question:
\* 0 <= current_num < len(questions).
C5_CursorInRange ==
    phase = "running"
        => (0 <= quiz.current_num /\ quiz.current_num < Len(quiz.questions))

\* C6: in a session on a well-formed document, an export command issued
\* while some question has no expected fails and leaves the quiz object as it
\* was (closed flag and solutions included).
C6_ExportWithoutExpectedChangesNothing ==
    [][((\E query \in Queries : QuizExportClosedQuiz(query))
          /\ LoadedWellFormed
          /\ ~AllHave(quiz.questions, "expected"))
       => (last'.raised # "" /\ quiz' = quiz)]_vars

\* What C7 expects in the destination: one document, closed, holding for
\* every question of q no solution and q's expected.
IsClosedCopy(content, q) ==
    /\ content # <<>>
    /\ content[1].closed
    /\ Len(content[1].questions) = Len(q.questions)
    /\ \A i \in 1..Len(q.questions) :
           /\ ~HasKey(content[1].questions[i], "solution")
           /\ HasKey(content[1].questions[i], "expected")
           /\ content[1].questions[i].expected = q.questions[i].expected

\* A quiz that can be exported: it has questions and each has its expected.
Exportable(q) == q.questions # <<>> /\ AllHave(q.questions, "expected")

\* C7: export_closed_quiz on a quiz whose questions all have expected writes
\* to the destination a closed document without solutions that keeps every
\* expected.
C7_ExportWritesClosedCopy ==
    [][\A f \in Filenames :
          (ExportClosedQuiz(f) /\ f # <<>> /\ LoadedWellFormed /\ Exportable(quiz))
              => (f \in DOMAIN files' /\ IsClosedCopy(files'[f], quiz))]_vars

\* C8: loading the file an export has just written returns a closed quiz
\* whose expected values are those of the exported quiz, question by question.
C8_ExportLoadRoundTrip ==
    [][\A f \in Filenames :
          (ExportClosedQuiz(f) /\ f # <<>> /\ LoadedWellFormed /\ Exportable(quiz))
              => LET back == load_from_yaml_file(files', f)
                 IN  /\ back.raised = ""
                     /\ back.quiz.closed
                     /\ Len(back.quiz.questions) = Len(quiz.questions)
                     /\ \A i \in 1..Len(quiz.questions) :
                            SameRows(back.quiz.questions[i].expected,
                                     quiz.questions[i].expected)]_vars

\* C9: in a session on a well-formed document, \solution is on offer only
\* while the quiz is open.
C9_SolutionOfferedOnlyWhileOpen ==
    (phase = "running" /\ LoadedWellFormed /\ CMD_SOLUTION \in registered)
        => ~quiz.closed

\* C10: no session runs on a document with an empty question list, an open
\* question without solution or a closed question without expected.
C10_OnlyWellFormedDocumentsStart ==
    phase = "running" => LoadedWellFormed

\* A step of the session that is a statement submission: _evaluate_command
\* is the only handler that counts in submits.
Submission == submits' = submits + 1 /\ last'.op = "_evaluate_command"

\* C11: the log grows only by appending.  A submission appends one block
\* exactly when verify_answer returned true for it, the block holds the
\* cursor at that verification and the submitted text; every other step
\* (a submission that verifies false or raises, any command) leaves the log
\* as it was.
C11_LogAppendOnly ==
    [][IF Submission /\ last'.raised = "" /\ last'.ret[2]
       THEN log' = Append(log, [num |-> quiz.current_num,
                                text |-> last'.called[Len(last'.called)].stmt])
       ELSE log' = log]_vars

\* Two blocks: a correct answer on question 0, then one on question 1.
C11_Witness ==
    /\ Len(log) = 2
    /\ log[1].num = 0
    /\ log[2].num = 1
    /\ last.op = "_evaluate_command"
    /\ last.ret[2]

\* C12: no command of the session renders the prompt of a question that has
\* no expected: \question and \next never end in the KeyError that
\* full_prompt raises on question['expected'].
C12_PromptNeverWithoutExpected ==
    (phase = "running" /\ last.op \in {"quiz_show_prompt", "quiz_next_question"})
        => last.raised # "KeyError"

\* C13: once the closed flag is set no solution is executed: the executor
\* calls of a step are the learner's own statements.  The submission that
\* finds the latch unset on a closed quiz sets it and leaves every question
\* (its expected included) as it was.
C13_ClosedAttachCallsNothing ==
    [][quiz.closed =>
          /\ runs' = runs
          /\ \A i \in 1..Len(last'.called) : last'.called[i].by = "_evaluate_command"
          /\ (Submission /\ ~quiz.expected_attached)
                 => (quiz'.expected_attached /\ quiz'.questions = quiz.questions)]_vars

\* The first statement of a session on a closed document has been run: one
\* executor call, the latch set.
C13_Witness ==
    /\ phase = "running"
    /\ files[quiz_filepath][1].closed
    /\ submits = 1
    /\ quiz.expected_attached
    /\ last.op = "_evaluate_command"
    /\ last.raised = ""
    /\ Len(last.called) = 1
    /\ last.called[1].ok

\* C14: reading the current question of a quiz on which start() has not been
\* called raises instead of returning a question.
C14_QuestionBeforeStartFails ==
    (phase = "running" /\ ~started /\ last.op = "question") => last.raised # ""

\* C15: when the first statement of a session on an open document is
\* executed, the solutions of all questions have been executed before it, one
\* call each, in document order, and all returned.  On every submission
\* verify_answer runs only after the learner's statement has returned, and
\* whenever it runs it finds the current question's expected (it does not
\* raise).  Stated of the sessions whose document has questions.
C15_AttachThenExecuteThenVerify ==
    [][(Submission /\ quiz.questions # <<>>) =>
          LET calls == last'.called
              n == Len(quiz.questions)
              executed == calls # <<>> /\ calls[Len(calls)].by = "_evaluate_command"
          IN  /\ (submits = 0 /\ ~files[quiz_filepath][1].closed /\ executed)
                     => /\ Len(calls) = n + 1
                        /\ \A i \in 1..n : /\ calls[i].by = "attach_expected"
                                            /\ calls[i].question = i - 1
                                            /\ calls[i].ok
              /\ last'.raised = "" => (executed /\ calls[Len(calls)].ok)
              /\ (executed /\ calls[Len(calls)].ok) => last'.raised = ""]_vars

\* C16: in a running session only \next changes current_num: a statement
\* submission (its attach pass, its verify, whatever the verdict), \question,
\* \solution and the export all leave it as it was.
C16_OnlyAdvanceMovesCursor ==
    [][(phase = "running" /\ quiz'.current_num # quiz.current_num)
          => QuizNextQuestion]_vars

\* A correct answer to question 0 of a two-question quiz, given on the
\* statement that ran the attach pass: it is logged and the cursor is still 0.
C16_Witness ==
    /\ Len(quiz.questions) = 2
    /\ last.op = "_evaluate_command"
    /\ last.raised = ""
    /\ last.ret[2]
    /\ Len(last.called) = 3
    /\ log = <<[num |-> 0, text |-> "SELECT 1"]>>
    /\ quiz.current_num = 0

\* C17: _expected_attached is a one-way latch: false on the quiz just loaded,
\* and once true it is true after every later call (goto_next, export,
\* attach_expected again, whether it completes or raises).
C17_LatchIsOneWay ==
    [][/\ (phase = "boot" /\ phase' = "running") => ~quiz'.expected_attached
       /\ (phase = "running" /\ quiz.expected_attached) => quiz'.expected_attached]_vars

\* attach_expected called again on an attached open quiz, the executor
\* failing this time: the latch is still set.
C17_Witness ==
    /\ phase = "running"
    /\ quiz.expected_attached
    /\ ~quiz.closed
    /\ submits = 2
    /\ last.op = "attach_expected"
    /\ last.raised = "ExecutionError"

\* The first whitespace-delimited token after the command name: the items
\* from the first one after position 1 that is not a space up to the next
\* space or the end of the text.
HasToken(query) == \E i \in 2..Len(query) : query[i] # " "
FirstToken(query) ==
    LET from == CHOOSE i \in 2..Len(query) :
                    query[i] # " " /\ \A j \in 2..(i - 1) : query[j] = " "
        to == CHOOSE k \in from..Len(query) :
                  /\ \A j \in from..k : query[j] # " "
                  /\ (k = Len(query) \/ query[k + 1] = " ")
    IN  SubSeq(query, from, to)

\* C18: an export command whose text holds a token after the command name
\* opens that first token as its destination, whatever the number of spaces
\* before it and whatever follows it.
C18_ExportPathIsFirstToken ==
    [][\A query \in Queries :
          (QuizExportClosedQuiz(query) /\ HasToken(query))
              => /\ last'.raised \notin {"IndexError", "FileNotFoundError"}
                 /\ FirstToken(query) \in DOMAIN files']_vars

\* The executor calls of a handler ended with a solution that failed.
FailedInAttach(calls) ==
    calls # <<>> /\ calls[Len(calls)].by = "attach_expected" /\ ~calls[Len(calls)].ok

C20_FailedAdvanceStillMoves ==
    [][(/\ GotoNext
        /\ quiz.current_num < Len(quiz.questions) - 1
        /\ ~HasKey(quiz.questions[quiz.current_num + 2], "expected"))
       => /\ last'.raised = "KeyError"
          /\ last'.ret = <<>>
          /\ quiz'.current_num = quiz.current_num + 1]_vars

\* goto_next raised on a two-question open quiz that was never attached: the
\* cursor is on question 1.
C20_Witness ==
    /\ phase = "running"
    /\ Len(quiz.questions) = 2
    /\ ~quiz.expected_attached
    /\ last.op = "goto_next"
    /\ last.raised = "KeyError"
    /\ nexts = 1
    /\ quiz.current_num = 1

====
